---- MODULE Spec2Model ----
(***************************************************************************)
(* State-machine model of src/src/loader.py: the AFFECT data loaders.      *)
(*                                                                         *)
(* Arrays and tensors are sequences: a modality row is a sequence of       *)
(* frames over the time axis, a frame is a sequence of numbers, a label is *)
(* a sequence of rows.  Numbers are integers, so sums are exact.  Python   *)
(* positions are 0-based; sequence positions here are 1-based, and `start` *)
(* keeps the code's meaning of "number of frames skipped".                 *)
(* z_norm is kept at its default (False): no statistics are modelled.      *)
(***************************************************************************)
EXTENDS Integers, Sequences, FiniteSets, TLC

VARIABLES
    pc,        \* position of the program: "start", "ready", "collated", "exited", "raised"
    args,      \* the arguments of get_dataloader / SentimentDataset
    file,      \* the content of the pickle file at filepath (never written)
    alldata,   \* the data held by the datasets (alldata[split], MeldDataset.data)
    process,   \* the collate function bound to the loaders
    batch,     \* the batch being fetched: its split, its indices, its samples
    out,       \* what the collate function produced for the batch
    got        \* per worker: the last dataset[i] it evaluated

vars == <<pc, args, file, alldata, process, batch, out, got>>

(***************************************************************************)
(* Bounds of the model and constants of the program.                       *)
(***************************************************************************)
SeqLen == 3
MaxSamples == 2
MaxBatch == 2
MaxPadNum == 2
MaxTokens == 3
NegInf == -1000
NumWorkers == 2

Splits == {"train", "valid", "test"}
Workers == 1..NumWorkers
None == [none |-> TRUE]

Max(S) == CHOOSE x \in S : \A y \in S : y <= x
Min(S) == CHOOSE x \in S : \A y \in S : x <= y

RECURSIVE SumSeq(_)
SumSeq(s) == IF Len(s) = 0 THEN 0 ELSE Head(s) + SumSeq(Tail(s))

RECURSIVE Concat(_)
Concat(ss) == IF Len(ss) = 0 THEN <<>> ELSE Head(ss) \o Concat(Tail(ss))

ZeroFrame(w) == [j \in 1..w |-> 0]

(***************************************************************************)
(* Input files.  A text row has `lead` all-zero frames and then frames     *)
(* with a non-zero entry in the second column (PlainRow), or is zero but   *)
(* for one frame <<1, -1>> whose entries cancel (CancelRow).  Vision,      *)
(* audio and labels carry the sample's position k in the file, so that a   *)
(* sample can be told from every other one; some vision rows begin with    *)
(* zero frames and some audio rows with a -inf frame.                      *)
(***************************************************************************)
PlainRow(lead) == [t \in 1..SeqLen |-> IF t <= lead THEN <<0, 0>> ELSE <<0, t>>]
CancelRow(lead) == [t \in 1..SeqLen |-> IF t = lead + 1 THEN <<1, -1>> ELSE <<0, 0>>]
ZeroRow == PlainRow(SeqLen)
TextRows == {ZeroRow, CancelRow(1), PlainRow(0), PlainRow(1), PlainRow(SeqLen - 1)}

VisionRow(k) ==
    [t \in 1..SeqLen |-> IF t <= (k - 1) % SeqLen THEN <<0>> ELSE <<10 * k + t>>]
AudioRow(k) ==
    [t \in 1..SeqLen |-> IF t = 1 /\ k % 2 = 1 THEN <<NegInf>> ELSE <<-(10 * k + t)>>]
LabelOf(k, shape) ==
    [r \in 1..shape[1] |->
        [c \in 1..shape[2] |-> (IF k % 2 = 1 THEN 1 ELSE -1) * (100 * k + 10 * r + c)]]

RawSplit(txt, shape) ==
    [text   |-> txt,
     vision |-> [k \in 1..Len(txt) |-> VisionRow(k)],
     audio  |-> [k \in 1..Len(txt) |-> AudioRow(k)],
     labels |-> [k \in 1..Len(txt) |-> LabelOf(k, shape)]]

Reverse(s) == [k \in 1..Len(s) |-> s[Len(s) + 1 - k]]
Rotate(s) == IF Len(s) = 0 THEN s ELSE Tail(s) \o <<Head(s)>>

TextColumns == UNION {[1..n -> TextRows] : n \in 0..MaxSamples}

\* The three splits of a file hold the same text rows in three orders.
InputFile(txt, shape) ==
    [s \in Splits |->
        RawSplit(CASE s = "train" -> txt
                   [] s = "valid" -> Reverse(txt)
                   [] s = "test"  -> Rotate(txt), shape)]

(***************************************************************************)
(* drop_entry (lines 19-28).                                               *)
(***************************************************************************)
\* k.sum() of one sample's text row
RowSum(k) == SumSeq([t \in 1..Len(k) |-> SumSeq(k[t])])

AllZero(k) == \A t \in 1..Len(k) : \A j \in 1..Len(k[t]) : k[t][j] = 0

\* a drop list that is never appended to
DropListEmpty(dataset) == {}

\* the list `drop`: the positions whose text sums to 0
DropList(dataset) == {ind \in 1..Len(dataset.text) : RowSum(dataset.text[ind]) = 0}

RECURSIVE Keep(_, _, _)
Keep(arr, drop, ind) ==
    IF ind > Len(arr) THEN <<>>
    ELSE (IF ind \in drop THEN <<>> ELSE <<arr[ind]>>) \o Keep(arr, drop, ind + 1)

\* np.delete(arr, drop, 0)
np_delete(arr, drop) == Keep(arr, drop, 1)

drop_entry(dataset) ==
    [modality \in DOMAIN dataset |-> np_delete(dataset[modality], DropList(dataset))]

(***************************************************************************)
(* SentimentDataset.__init__ (line 119): -inf audio values become 0.       *)
(***************************************************************************)
CleanAudio(audio) ==
    [k \in 1..Len(audio) |->
        [t \in 1..Len(audio[k]) |->
            [j \in 1..Len(audio[k][t]) |->
                IF audio[k][t][j] = NegInf THEN 0 ELSE audio[k][t][j]]]]

SentimentDataset(data) == [data EXCEPT !.audio = CleanAudio(data.audio)]

(***************************************************************************)
(* SentimentDataset.__getitem__ (lines 121-185).                           *)
(***************************************************************************)
Tensor(d, v) == [kind |-> "tensor", dim |-> d, val |-> v]
IntElem(i) == [kind |-> "int", ind |-> i]

NonzeroTimes(tensor) ==
    {t \in 1..Len(tensor) : \E j \in 1..Len(tensor[t]) : tensor[t][j] # 0}

\* the time index of the last non-zero entry instead
FirstNonzeroLast(tensor) == Max(NonzeroTimes(tensor)) - 1

\* tensor.nonzero()[0][0]: the time index of the first non-zero entry
FirstNonzero(tensor) == Min(NonzeroTimes(tensor)) - 1

\* tensor[start:]
SliceFrom(tensor, start) == SubSeq(tensor, start + 1, Len(tensor))

\* tensor[:n]
SliceTo(tensor, n) == SubSeq(tensor, 1, IF n < Len(tensor) THEN n ELSE Len(tensor))

\* F.pad(tensor, (0, 0, n, 0)): the zero frames put in front instead
FPadLeft(tensor, n) == [x \in 1..n |-> ZeroFrame(Len(tensor[1]))] \o tensor

\* F.pad(tensor, (0, 0, 0, n)): n zero frames appended on the time axis
FPad(tensor, n) == tensor \o [x \in 1..n |-> ZeroFrame(Len(tensor[1]))]

\* lines 179-182: truncate to max_pad_num, then pad to max_pad_num
MaxPad(tensor, max_pad_num) ==
    FPad(SliceTo(tensor, max_pad_num), max_pad_num - Len(SliceTo(tensor, max_pad_num)))

NumElems(label) == IF Len(label) = 0 THEN 0 ELSE Len(label) * Len(label[1])

\* _get_class (lines 156-157) on a one-element array
get_class(tmp_label) == IF tmp_label[1][1] > 0 THEN <<<<1>>>> ELSE <<<<0>>>>

\* lines 127-139 when no row lacks a non-zero entry
Truncate(a, v, au, tx) ==
    IF a
    THEN [vision |-> SliceFrom(v, FirstNonzero(tx)),
          audio  |-> SliceFrom(au, FirstNonzero(tx)),
          text   |-> SliceFrom(tx, FirstNonzero(tx))]
    ELSE [vision |-> SliceFrom(v, FirstNonzero(v)),
          audio  |-> SliceFrom(au, FirstNonzero(au)),
          text   |-> SliceFrom(tx, FirstNonzero(tx))]

\* lines 167-185: the list returned for the truncated rows m and the label
Layout(a, m, ind, label) ==
    IF a.flatten_time_series
    THEN <<Tensor(1, Concat(m.vision)), Tensor(1, Concat(m.audio)),
           Tensor(1, Concat(m.text)), IntElem(ind), Tensor(2, label)>>
    ELSE IF a.max_pad
         THEN <<Tensor(2, MaxPad(m.vision, a.max_seq_len)),
                Tensor(2, MaxPad(m.audio, a.max_seq_len)),
                Tensor(2, MaxPad(m.text, a.max_seq_len)), Tensor(2, label)>>
         ELSE <<Tensor(2, m.vision), Tensor(2, m.audio), Tensor(2, m.text),
                IntElem(ind), Tensor(2, label)>>

\* The outcome of dataset[ind]: a sample, the process exit of line 132, or
\* an exception (IndexError of lines 137-139, ValueError of line 157).
getitem(dataset, a, ind) ==
    LET vision == dataset.vision[ind]
        audio  == dataset.audio[ind]
        text   == dataset.text[ind]
        tmp_label == dataset.labels[ind]
    IN  IF a.aligned /\ NonzeroTimes(text) = {}
        THEN [status |-> "exit", sample |-> <<>>]
        ELSE IF ~a.aligned /\ (NonzeroTimes(vision) = {} \/ NonzeroTimes(audio) = {}
                               \/ NonzeroTimes(text) = {})
        THEN [status |-> "raise", sample |-> <<>>]
        ELSE IF a.task = "classification" /\ NumElems(tmp_label) # 1
        THEN [status |-> "raise", sample |-> <<>>]
        ELSE [status |-> "ok",
              sample |-> Layout(a, Truncate(a.aligned, vision, audio, text), ind,
                                IF a.task = "classification"
                                THEN get_class(tmp_label) ELSE tmp_label)]

\* a __getitem__ that cut the text row of self.dataset itself
DatasetAfterGetInPlace(dataset, a, ind) ==
    IF a.data_type = "meld" THEN dataset
    ELSE IF NonzeroTimes(dataset.text[ind]) = {} THEN dataset
    ELSE [dataset EXCEPT !.text[ind] = SliceFrom(@, FirstNonzero(@))]

\* what __getitem__ leaves in self.dataset: torch.tensor copies the rows
\* (lines 123-125) and nothing is assigned to self.dataset
DatasetAfterGet(dataset, a, ind) == dataset

(***************************************************************************)
(* MeldDataset (lines 58-82).  raw_data.items() is a sequence of           *)
(* <<key, value>> pairs in the mapping's order.                            *)
(***************************************************************************)
\* record k has n tokens and audio frames, n or n + 1 video frames, label y
MeldRecord(k, n, y) ==
    [token_ids      |-> [t \in 1..n |-> 10 * k + t],
     video_features |-> [t \in 1..(n + (k % 2)) |-> <<100 * k + t>>],
     audio_features |-> [t \in 1..n |-> <<-(100 * k + t)>>],
     label          |-> y]

MeldShapes == (1..MaxTokens) \X {0, 1}
MeldFiles ==
    {[k \in 1..Len(f) |-> <<k, MeldRecord(k, f[k][1], f[k][2])>>] :
        f \in UNION {[1..m -> MeldShapes] : m \in 1..MaxSamples}}

\* line 61: the list of records, each with its key as Id
MeldDataset(raw_data) ==
    [k \in 1..Len(raw_data) |->
        [Id             |-> raw_data[k][1],
         token_ids      |-> raw_data[k][2].token_ids,
         video_features |-> raw_data[k][2].video_features,
         audio_features |-> raw_data[k][2].audio_features,
         label          |-> raw_data[k][2].label]]

\* MeldDataset.__getitem__ (lines 78-79)
meld_getitem(data, index) == data[index]

(***************************************************************************)
(* pad_sequence(feature, batch_first=True) over tensors of one trailing    *)
(* shape: every row is filled with zeros up to the longest row.            *)
(***************************************************************************)
ZeroOf(e) == IF e.dim = 1 THEN 0 ELSE ZeroFrame(Len(e.val[1]))

MaxLen(feature) == Max({Len(feature[j].val) : j \in 1..Len(feature)})

\* the zeros put in front of the row instead
PadRowLeft(e, n) == [x \in 1..(n - Len(e.val)) |-> ZeroOf(e)] \o e.val

\* the row e filled with zeros behind it up to n entries
PadRow(e, n) == e.val \o [x \in 1..(n - Len(e.val)) |-> ZeroOf(e)]

pad_sequence(feature) == [j \in 1..Len(feature) |-> PadRow(feature[j], MaxLen(feature))]

(***************************************************************************)
(* The label handling shared by _process_1 (lines 362-370) and _process_2  *)
(* (lines 394-400), and the conversion of lines 376 and 406.               *)
(***************************************************************************)
\* label.reshape(rows, cols): the entries in row-major order, cut into rows
Reshape(label, rows, cols) ==
    [i \in 1..rows |-> SubSeq(Concat(label), (i - 1) * cols + 1, i * cols)]

Transpose(label) ==
    [i \in 1..Len(label[1]) |-> [j \in 1..Len(label) |-> label[j][i]]]

\* what is appended to `labels` for the sample's last element e
PickLabel(e) ==
    IF Len(e.val[1]) > 1
    THEN Tensor(1, Reshape(e.val, Len(e.val[1]), Len(e.val))[1])
    ELSE Tensor(2, e.val)

PickedSize(p) == IF p.dim = 1 THEN Len(p.val) ELSE NumElems(p.val)
PickedItem(p) == IF p.dim = 1 THEN p.val[1] ELSE p.val[1][1]

\* torch.tensor(labels).view(len(inputs), 1) needs one value per sample
ColumnOk(picked) == \A j \in 1..Len(picked) : PickedSize(picked[j]) = 1
LabelColumn(picked) == [j \in 1..Len(picked) |-> <<PickedItem(picked[j])>>]

Feature(inputs, i) == [j \in 1..Len(inputs) |-> inputs[j][i]]
AllTensors(feature) == \A j \in 1..Len(feature) : feature[j].kind = "tensor"
Lengths(feature) == [j \in 1..Len(feature) |-> Len(feature[j].val)]
Raised(picked) == [status |-> "raise", picked |-> picked]

\* _process_1 (lines 346-377)
process_1(inputs) ==
    LET n      == Len(inputs[1]) - 2
        last   == [j \in 1..Len(inputs) |-> inputs[j][Len(inputs[j])]]
        before == [j \in 1..Len(inputs) |-> inputs[j][Len(inputs[j]) - 1]]
        picked == [j \in 1..Len(inputs) |-> PickLabel(last[j])]
    IN  IF \E i \in 1..n : ~AllTensors(Feature(inputs, i))
        THEN Raised(<<>>)
        ELSE IF \E j \in 1..Len(inputs) : last[j].kind # "tensor" \/ before[j].kind # "int"
        THEN Raised(<<>>)
        ELSE IF ~ColumnOk(picked)
        THEN Raised(picked)
        ELSE [status |-> "ok",
              processed_input |-> [i \in 1..n |-> pad_sequence(Feature(inputs, i))],
              processed_input_lengths |-> [i \in 1..n |-> Lengths(Feature(inputs, i))],
              inds   |-> [j \in 1..Len(inputs) |-> <<before[j].ind>>],
              labels |-> LabelColumn(picked),
              picked |-> picked]

\* torch.stack(feature) needs rows of one shape
Stackable(feature) ==
    \A j \in 1..Len(feature) :
        feature[j].dim = feature[1].dim /\ Len(feature[j].val) = Len(feature[1].val)

\* _process_2 (lines 380-407)
process_2(inputs) ==
    LET n      == Len(inputs[1]) - 1
        last   == [j \in 1..Len(inputs) |-> inputs[j][Len(inputs[j])]]
        picked == [j \in 1..Len(inputs) |-> PickLabel(last[j])]
    IN  IF \E i \in 1..n : ~AllTensors(Feature(inputs, i))
        THEN Raised(<<>>)
        ELSE IF \E i \in 1..n : ~Stackable(Feature(inputs, i))
        THEN Raised(<<>>)
        ELSE IF ~ColumnOk(picked)
        THEN Raised(picked)
        ELSE [status |-> "ok",
              processed_input |-> [i \in 1..3 |-> [j \in 1..Len(inputs) |-> inputs[j][i].val]],
              labels |-> LabelColumn(picked),
              picked |-> picked]

(***************************************************************************)
(* collate_fn of the meld loader (lines 287-334).                          *)
(***************************************************************************)
\* sorted(batch, key=...): stable, ascending; x goes behind the keys <= its own
RECURSIVE Sorted(_)
Sorted(b) ==
    IF Len(b) <= 1 THEN b
    ELSE LET r == Sorted(SubSeq(b, 1, Len(b) - 1))
             x == b[Len(b)]
             p == Cardinality({j \in 1..Len(r) : Len(r[j].token_ids) <= Len(x.token_ids)})
         IN  SubSeq(r, 1, p) \o <<x>> \o SubSeq(r, p + 1, Len(r))

\* the batch left in the order it was fetched in
SortBatchNot(batch0) == batch0

\* line 289: batch = sorted(batch, key=lambda x: len(x["token_ids"]))
SortBatch(batch0) == Sorted(batch0)

\* the token counts without the leading timestep
TokenLengthsRaw(b) == [j \in 1..Len(b) |-> Len(b[j].token_ids)]

\* lines 312-318: lengths = lengths + 1
TokenLengths(b) == [j \in 1..Len(b) |-> Len(b[j].token_ids) + 1]

\* lines 321-324: arange(SENT_LEN) < lengths, position t counted from 0
SentMask(sent_len, lengths) ==
    [j \in 1..Len(lengths) |-> [t \in 1..sent_len |-> (t - 1) < lengths[j]]]

collate_fn(batch0) ==
    LET b        == SortBatch(batch0)
        text     == pad_sequence([j \in 1..Len(b) |-> Tensor(1, b[j].token_ids)])
        visual   == pad_sequence([j \in 1..Len(b) |-> Tensor(2, b[j].video_features)])
        acoustic == pad_sequence([j \in 1..Len(b) |-> Tensor(2, b[j].audio_features)])
        lengths  == TokenLengths(b)
        s        == [j \in 1..Len(b) |-> <<0>> \o text[j]]
        v        == [j \in 1..Len(b) |-> <<ZeroFrame(Len(b[j].video_features[1]))>> \o visual[j]]
        a        == [j \in 1..Len(b) |-> <<ZeroFrame(Len(b[j].audio_features[1]))>> \o acoustic[j]]
    IN  [status |-> "ok",
         s |-> s, v |-> v, a |-> a,
         y |-> [j \in 1..Len(b) |-> b[j].label],
         l |-> lengths,
         bert_sent_mask |-> SentMask(Len(s[1]), lengths)]

(***************************************************************************)
(* The program.  get_dataloader (lines 192-343) reads the file, filters    *)
(* and wraps the splits and binds the collate function; the DataLoader     *)
(* then evaluates dataset[i] for the indices of a batch, applies the       *)
(* collate function to the samples and hands the result over.              *)
(***************************************************************************)
Continuous == {"mosi", "mosei"}
LabelCases == {<<"None", <<1, 1>>>>, <<"classification", <<1, 1>>>>,
               <<"None", <<1, 3>>>>, <<"None", <<2, 3>>>>}

Arguments(dt, mp, fl, task, al) ==
    [data_type |-> dt, max_pad |-> mp, flatten_time_series |-> fl, task |-> task,
     max_seq_len |-> MaxPadNum, aligned |-> al]

EmptyBatch == [split |-> "", inds |-> <<>>, samples |-> <<>>]

IsMeld == args.data_type = "meld"

InitMosi ==
    \E txt \in TextColumns, lc \in LabelCases, mp \in BOOLEAN, fl \in BOOLEAN,
       dt \in Continuous :
        /\ args = Arguments(dt, mp, fl, lc[1], TRUE)
        /\ file = InputFile(txt, lc[2])

InitMeld ==
    \E f \in MeldFiles :
        /\ args = Arguments("meld", FALSE, FALSE, "None", TRUE)
        /\ file = f

Init ==
    /\ InitMosi \/ InitMeld
    /\ pc = "start"
    /\ alldata = None
    /\ process = None
    /\ batch = EmptyBatch
    /\ out = None
    /\ got = [w \in Workers |-> None]

\* lines 221-283 and 284-343
GetDataloader ==
    /\ pc = "start"
    /\ IF args.data_type \in Continuous
       THEN /\ alldata' = [s \in Splits |-> SentimentDataset(drop_entry(file[s]))]
            /\ process' = IF args.max_pad THEN "_process_2" ELSE "_process_1"
       ELSE /\ alldata' = [s \in {"meld"} |-> MeldDataset(file)]
            /\ process' = "collate_fn"
    /\ pc' = "ready"
    /\ UNCHANGED <<args, file, batch, out, got>>

\* __len__ (lines 81-82, 187-189)
DatasetLen(s) == IF IsMeld THEN Len(alldata[s]) ELSE Len(alldata[s].vision)

\* dataset[i] of the dataset of loader s
Item(s, i) ==
    IF IsMeld
    THEN [status |-> "ok", sample |-> meld_getitem(alldata[s], i)]
    ELSE getitem(alldata[s], args, i)

AfterItem(r) ==
    CASE r.status = "ok"   -> "ready"
      [] r.status = "exit" -> "exited"
      [] OTHER             -> "raised"

\* the loader of s evaluates dataset[i] for the next index of its batch
Fetch(s, i) ==
    /\ pc = "ready"
    /\ s \in DOMAIN alldata
    /\ i \in 1..DatasetLen(s)
    /\ Len(batch.inds) < MaxBatch
    /\ batch.inds = <<>> \/ batch.split = s
    /\ \A j \in 1..Len(batch.inds) : batch.inds[j] # i
    /\ LET r == Item(s, i)
       IN  /\ pc' = AfterItem(r)
           /\ batch' = IF r.status = "ok"
                       THEN [split |-> s, inds |-> Append(batch.inds, i),
                             samples |-> Append(batch.samples, r.sample)]
                       ELSE batch
    /\ alldata' = [alldata EXCEPT ![s] = DatasetAfterGet(@, args, i)]
    /\ UNCHANGED <<args, file, process, out, got>>

CollateWith(f, inputs) ==
    CASE f = "_process_1" -> process_1(inputs)
      [] f = "_process_2" -> process_2(inputs)
      [] OTHER            -> collate_fn(inputs)

\* the loader applies its collate function to the fetched samples
Collate ==
    /\ pc = "ready"
    /\ Len(batch.samples) > 0
    /\ out' = CollateWith(process, batch.samples)
    /\ pc' = IF out'.status = "ok" THEN "collated" ELSE "raised"
    /\ UNCHANGED <<args, file, alldata, process, batch, got>>

\* the batch is handed to the consumer and the next batch begins
Deliver ==
    /\ pc = "collated"
    /\ pc' = "ready"
    /\ batch' = EmptyBatch
    /\ out' = None
    /\ UNCHANGED <<args, file, alldata, process, got>>

Next ==
    \/ GetDataloader
    \/ \E s \in Splits \cup {"meld"}, i \in 1..MaxSamples : Fetch(s, i)
    \/ Collate
    \/ Deliver

Spec == Init /\ [][Next]_vars

(***************************************************************************)
(* The datasets used directly: a SentimentDataset built on an unfiltered   *)
(* split with either alignment mode, or a MeldDataset, whose __getitem__   *)
(* is called by several workers in any order.                              *)
(***************************************************************************)
InitDataset ==
    /\ \/ \E txt \in TextColumns, lc \in LabelCases, mp \in BOOLEAN, fl \in BOOLEAN,
             al \in BOOLEAN :
              /\ args = Arguments("mosi", mp, fl, lc[1], al)
              /\ file = InputFile(txt, lc[2])
              /\ alldata = [s \in {"train"} |-> SentimentDataset(file[s])]
       \/ \E f \in MeldFiles :
              /\ args = Arguments("meld", FALSE, FALSE, "None", TRUE)
              /\ file = f
              /\ alldata = [s \in {"meld"} |-> MeldDataset(f)]
    /\ pc = "ready"
    /\ process = None
    /\ batch = EmptyBatch
    /\ out = None
    /\ got = [w \in Workers |-> None]

\* worker w evaluates dataset[i]
Get(w, s, i) ==
    /\ pc = "ready"
    /\ s \in DOMAIN alldata
    /\ i \in 1..DatasetLen(s)
    /\ LET r == Item(s, i)
       IN  /\ pc' = AfterItem(r)
           /\ got' = [got EXCEPT ![w] = [split |-> s, ind |-> i, result |-> r]]
    /\ alldata' = [alldata EXCEPT ![s] = DatasetAfterGet(@, args, i)]
    /\ UNCHANGED <<args, file, process, batch, out>>

NextDataset == \E w \in Workers, s \in {"train", "meld"}, i \in 1..MaxSamples : Get(w, s, i)

SpecDataset == InitDataset /\ [][NextDataset]_vars

(***************************************************************************)
(* Properties.                                                             *)
(***************************************************************************)
Built == pc # "start" /\ args.data_type \in Continuous
Collated(f) == pc = "collated" /\ process = f
Rows == 1..Len(batch.samples)

ZeroRows(dataset) == {ind \in 1..Len(dataset.text) : AllZero(dataset.text[ind])}

\* C1: drop_entry leaves no all-zero text row, removes exactly the samples
\* whose text row is all-zero (a row that is not all-zero stays, even when
\* its entries sum to 0), and filters vision, audio and labels to the same
\* positions in the original order.
C1_DropsExactlyAllZeroRows ==
    Built =>
        \A s \in Splits :
            /\ \A k \in 1..Len(alldata[s].text) : ~AllZero(alldata[s].text[k])
            /\ Len(alldata[s].text) = Len(file[s].text) - Cardinality(ZeroRows(file[s]))
            /\ alldata[s].text = np_delete(file[s].text, ZeroRows(file[s]))
            /\ alldata[s].vision = np_delete(file[s].vision, ZeroRows(file[s]))
            /\ alldata[s].audio = CleanAudio(np_delete(file[s].audio, ZeroRows(file[s])))
            /\ alldata[s].labels = np_delete(file[s].labels, ZeroRows(file[s]))

\* C9: through get_dataloader the exit of aligned retrieval is unreachable:
\* after drop_entry every text row of every split has a non-zero entry, so
\* dataset[i] never takes the exit branch and the process never exits.
C9_ExitUnreachable ==
    args.data_type \in Continuous =>
        /\ pc # "exited"
        /\ pc # "start" =>
              \A s \in Splits : \A i \in 1..Len(alldata[s].text) :
                  /\ NonzeroTimes(alldata[s].text[i]) # {}
                  /\ getitem(alldata[s], args, i).status # "exit"

\* an all-zero text row was in the file and a sample of that split was fetched
C9_Witness ==
    /\ Built
    /\ Len(batch.samples) > 0
    /\ ZeroRows(file[batch.split]) # {}

Kinds(sample) == [i \in 1..Len(sample) |-> sample[i].kind]

\* C10: for every flatten_time_series and max_pad, the samples handed to
\* the selected collate function have its layout: _process_1 gets three
\* tensors, the index and the label; _process_2 gets three tensors of
\* max_pad_num frames and the label, without an index.
C10_LayoutMatchesCollator ==
    Built =>
        \A j \in Rows :
            LET sample == batch.samples[j]
            IN  /\ process = "_process_1" =>
                      Kinds(sample) = <<"tensor", "tensor", "tensor", "int", "tensor">>
                /\ process = "_process_2" =>
                      /\ Kinds(sample) = <<"tensor", "tensor", "tensor", "tensor">>
                      /\ \A i \in 1..3 : Len(sample[i].val) = args.max_seq_len

\* C3: a batch of _process_1 has, for each of the three modalities, a time
\* axis as long as the longest sample of the batch; the reported lengths are
\* the samples' own lengths; each row begins with the sample's frames and
\* is zero beyond the sample's length.
C3_UnpaddedBatch ==
    Collated("_process_1") =>
        /\ Len(out.processed_input) = 3
        /\ Len(out.processed_input_lengths) = 3
        /\ \A i \in 1..3 :
              LET longest == Max({Len(batch.samples[j][i].val) : j \in Rows})
              IN  \A j \in Rows :
                      LET e == batch.samples[j][i]
                          row == out.processed_input[i][j]
                      IN  /\ Len(row) = longest
                          /\ out.processed_input_lengths[i][j] = Len(e.val)
                          /\ \A t \in 1..longest :
                                row[t] = IF t <= Len(e.val) THEN e.val[t] ELSE ZeroOf(e)

\* a collated _process_1 batch of unflattened samples of different lengths
C3_Witness ==
    /\ Collated("_process_1")
    /\ ~args.flatten_time_series
    /\ \E j, k \in Rows : Len(batch.samples[j][3].val) < Len(batch.samples[k][3].val)

\* the rows of sample i of split s from their common offset (aligned mode)
FromOffset(s, i) ==
    LET text  == alldata[s].text[i]
        start == (CHOOSE t \in 1..Len(text) :
                     /\ \E x \in 1..Len(text[t]) : text[t][x] # 0
                     /\ \A u \in 1..(t - 1) : \A x \in 1..Len(text[u]) : text[u][x] = 0) - 1
    IN  <<SubSeq(alldata[s].vision[i], start + 1, Len(alldata[s].vision[i])),
          SubSeq(alldata[s].audio[i], start + 1, Len(alldata[s].audio[i])),
          SubSeq(text, start + 1, Len(text))>>

\* C4: with max_pad and without flatten, each modality of each sample has
\* exactly max_pad_num frames: the first min(L, max_pad_num) frames of the
\* sample (L its length from the offset) and zero frames after them; so
\* every tensor of a _process_2 batch has max_pad_num frames.
C4_PrePadded ==
    (Built /\ args.max_pad /\ ~args.flatten_time_series) =>
        /\ \A j \in Rows : \A m \in 1..3 :
              LET orig == FromOffset(batch.split, batch.inds[j])[m]
                  seq  == batch.samples[j][m].val
              IN  /\ Len(seq) = args.max_seq_len
                  /\ \A t \in 1..Len(seq) :
                        seq[t] = IF t <= Len(orig) THEN orig[t]
                                 ELSE [x \in 1..Len(orig[1]) |-> 0]
        /\ pc = "collated" =>
              /\ process = "_process_2"
              /\ \A m \in 1..3 : \A j \in Rows :
                    Len(out.processed_input[m][j]) = args.max_seq_len

\* a collated _process_2 batch with a truncated and a padded sample
C4_Witness ==
    /\ Collated("_process_2")
    /\ ~args.flatten_time_series
    /\ \E j, k \in Rows :
          /\ Len(FromOffset(batch.split, batch.inds[j])[3]) > args.max_seq_len
          /\ Len(FromOffset(batch.split, batch.inds[k])[3]) < args.max_seq_len

\* C5: in _process_1 and _process_2, a label with more than one value per
\* row is replaced by the first row of its transpose (for a (1, 3) label its
\* first element); a label with one column is taken as it is.
C5_LabelIsTransposeRow ==
    (Built /\ pc \in {"collated", "raised"} /\ Len(out.picked) = Len(batch.samples)) =>
        \A j \in Rows :
            LET label == batch.samples[j][Len(batch.samples[j])].val
            IN  IF Len(label[1]) > 1
                THEN out.picked[j] = Tensor(1, Transpose(label)[1])
                ELSE out.picked[j] = Tensor(2, label)

Called(w) == "ind" \in DOMAIN got[w]

\* C6: in aligned mode dataset[i] cuts vision, audio and text from one
\* offset, the smallest time index at which the text row has a non-zero
\* entry; on an all-zero text row it returns no sample and the process
\* terminates.
C6_AlignedOffset ==
    (args.data_type \in Continuous /\ args.aligned) =>
        \A w \in Workers :
            Called(w) =>
                LET i == got[w].ind
                    r == got[w].result
                    m == FromOffset("train", i)
                    expected == Layout(args, [vision |-> m[1], audio |-> m[2], text |-> m[3]],
                                       i, <<>>)
                IN  IF AllZero(alldata["train"].text[i])
                    THEN r.status = "exit" /\ r.sample = <<>> /\ pc = "exited"
                    ELSE /\ r.status = "ok"
                         /\ \A x \in 1..3 : r.sample[x] = expected[x]

\* one call cut its rows from a positive offset and another met an all-zero row
C6_Witness ==
    /\ args.data_type \in Continuous
    /\ args.aligned
    /\ pc = "exited"
    /\ \E w, v \in Workers :
          /\ Called(w) /\ Called(v)
          /\ got[v].result.status = "exit"
          /\ got[w].result.status = "ok"
          /\ Len(FromOffset("train", got[w].ind)[3]) < Len(alldata["train"].text[got[w].ind])

Constructed ==
    IF IsMeld THEN [s \in {"meld"} |-> MeldDataset(file)]
    ELSE [s \in {"train"} |-> SentimentDataset(file[s])]

\* C7: after construction, no sequence or interleaving of dataset[i] calls
\* writes the data: the dataset stays as constructed, and what a call
\* returned for index i is what the dataset as constructed gives for i.
C7_GetLeavesDataUnchanged ==
    /\ alldata = Constructed
    /\ \A w \in Workers :
          Called(w) =>
              got[w].result =
                  IF IsMeld
                  THEN [status |-> "ok", sample |-> meld_getitem(Constructed["meld"], got[w].ind)]
                  ELSE getitem(Constructed["train"], args, got[w].ind)

\* both workers have evaluated dataset[i], for different i
C7_Witness ==
    /\ Called(1) /\ Called(2)
    /\ got[1].ind # got[2].ind
    /\ got[1].result.status = "ok"
    /\ got[2].result.status = "ok"

TrueCount(row) == Cardinality({t \in 1..Len(row) : row[t]})

\* C2: for a non-empty meld batch, each output length is the sample's token
\* count plus 1; mask position t of a row is true exactly when t is below
\* that length (the row sum is the length); the text batch is as wide as the
\* largest token count plus 1.
C2_MeldLengthsAndMask ==
    (IsMeld /\ pc = "collated") =>
        /\ \E p \in Permutations(Rows) :
              \A j \in Rows :
                  LET tokens == batch.samples[p[j]].token_ids
                  IN  /\ out.l[j] = Len(tokens) + 1
                      /\ SubSeq(out.s[j], 2, Len(tokens) + 1) = tokens
        /\ \A j \in Rows :
              /\ Len(out.bert_sent_mask[j]) = Len(out.s[j])
              /\ \A t \in 1..Len(out.s[j]) : out.bert_sent_mask[j][t] <=> (t - 1 < out.l[j])
              /\ TrueCount(out.bert_sent_mask[j]) = out.l[j]
              /\ Len(out.s[j]) = Max({Len(batch.samples[k].token_ids) : k \in Rows}) + 1

\* a collated meld batch whose samples differ in token count
C2_Witness ==
    /\ IsMeld
    /\ pc = "collated"
    /\ \E j, k \in Rows : out.l[j] < out.l[k]

\* C8: the meld collate function orders the batch by ascending token count
\* and keeps each sample together: the lengths do not decrease, the output
\* is a permutation of the batch, and text, visual, acoustic, label, length
\* and mask of a row come from one record.
C8_MeldSortedConsistent ==
    (IsMeld /\ pc = "collated") =>
        /\ Len(out.l) = Len(batch.samples)
        /\ \A j \in 1..(Len(out.l) - 1) : out.l[j] <= out.l[j + 1]
        /\ \E p \in Permutations(Rows) :
              \A j \in Rows :
                  LET r == batch.samples[p[j]]
                      n == Len(r.token_ids)
                  IN  /\ out.y[j] = r.label
                      /\ out.l[j] = n + 1
                      /\ SubSeq(out.s[j], 2, n + 1) = r.token_ids
                      /\ SubSeq(out.v[j], 2, Len(r.video_features) + 1) = r.video_features
                      /\ SubSeq(out.a[j], 2, Len(r.audio_features) + 1) = r.audio_features
                      /\ {t \in 1..Len(out.bert_sent_mask[j]) : out.bert_sent_mask[j][t]}
                             = 1..(n + 1)

\* a collated meld batch that was fetched longest sample first
C8_Witness ==
    /\ IsMeld
    /\ pc = "collated"
    /\ Len(batch.samples) >= 2
    /\ Len(batch.samples[1].token_ids) > Len(batch.samples[2].token_ids)

====
